---- MODULE Spec2Model ----
(***************************************************************************)
(* Model of the EMBI dashboard (src/app.py, src/embi.py): the module-level *)
(* normalisation of the spreadsheet into the global frame df, and the      *)
(* update_graph callback that slices df for the chart.                     *)
(*                                                                         *)
(* Dates are calendar days numbered 1, 2, 3, ...; a raw numeric cell n     *)
(* stands for the decimal n/1000 (125 is 0.125, 4255 is 4.255).            *)
(***************************************************************************)
EXTENDS Integers, Sequences, FiniteSets, TLC

VARIABLES raw, pc, df, fig, lastArgs, x, y

vars == <<raw, pc, df, fig, lastArgs, x, y>>

(***************************************************************************)
(* Bounds of the model                                                     *)
(***************************************************************************)
MaxRows == 3        \* rows of the raw sheet, normalisation runs
MaxDay == 3         \* latest calendar day of a raw row, normalisation runs
QRows == 2          \* rows of the raw sheet, query runs
QDay == 2           \* latest calendar day of a raw row, query runs
MaxMilli == 4300    \* largest magnitude n of a cell n/1000, scaling runs

(***************************************************************************)
(* Values                                                                  *)
(***************************************************************************)
BadDate == -2       \* a first-column cell that is no date
NaT == -1           \* what to_datetime(errors="coerce") makes of it

NA == [k |-> "na"]
Text == [k |-> "txt"]
Num(n) == [k |-> "num", v |-> n]
IntVal(n) == [k |-> "int", v |-> n]

Range(s) == {s[i] : i \in 1..Len(s)}

\* the series columns of the sheet, named as columns.str.strip() leaves them
ColNames == <<"X", "Y">>

\* the cells a sheet may hold
AllCells == {NA, Text, Num(125), Num(250)}

\* the cells of one row: X empty, text or 0.125, Y empty or 0.25, a text
\* cell only beside a filled Y; in the query runs Y is always filled
RowCells ==
  {cs \in [Range(ColNames) -> AllCells] :
     /\ cs["X"] \in {NA, Text, Num(125)}
     /\ cs["Y"] \in {NA, Num(250)}
     /\ cs["X"] = Text => cs["Y"] # NA}
QRowCells == {cs \in RowCells : cs["Y"] # NA}

RawRows(dates, cells) == {[date |-> d, cells |-> cs] : d \in dates, cs \in cells}

RawTables(maxRows, dates, cells) ==
  UNION {[1..n -> RawRows(dates, cells)] : n \in 0..maxRows}

(***************************************************************************)
(* Normalisation, statement by statement.  A frame is a record            *)
(* [cols, index, val]: the series columns in order, the row labels in row  *)
(* order, and val[i][c] the cell of row i in column c.                     *)
(***************************************************************************)
Min(a, b) == IF a <= b THEN a ELSE b
SetMin(S) == CHOOSE m \in S : \A e \in S : m <= e
SetMax(S) == CHOOSE m \in S : \A e \in S : e <= m

\* the members of a set of positions, in ascending order
RECURSIVE Ascending(_)
Ascending(S) ==
  IF S = {} THEN <<>>
  ELSE LET m == CHOOSE e \in S : \A o \in S : e <= o
       IN <<m>> \o Ascending(S \ {m})

\* pd.to_datetime(df["Date"], errors="coerce")
to_datetime(d) == IF d >= 1 THEN d ELSE NaT

\* df.dropna(axis=1, how="all") on the sheet: the columns with a cell that
\* is not missing.  The date column is one of the columns at this point.
DateSurvives(t) == \E i \in 1..Len(t) : to_datetime(t[i].date) # NaT
dropna_cols(t) ==
  LET keep == Ascending({j \in 1..Len(ColNames) :
                           \E i \in 1..Len(t) : t[i].cells[ColNames[j]] # NA})
  IN [j \in 1..Len(keep) |-> ColNames[keep[j]]]

\* df.set_index("Date"): the frame with the parsed dates as row labels
set_index(t, cols) ==
  [cols |-> cols,
   index |-> [i \in 1..Len(t) |-> to_datetime(t[i].date)],
   val |-> [i \in 1..Len(t) |-> [c \in Range(cols) |-> t[i].cells[c]]]]

\* duplicated(keep="first") in place of keep="last"
duplicated_first(index, i) == \E j \in 1..(i - 1) : index[j] = index[i]

\* df[~df.index.duplicated(keep="last")]: NaT labels count as equal
duplicated_last(index, i) == \E j \in (i + 1)..Len(index) : index[j] = index[i]
drop_duplicated(f) ==
  LET keep == Ascending({i \in 1..Len(f.index) : ~duplicated_last(f.index, i)})
  IN [cols |-> f.cols,
      index |-> [i \in 1..Len(keep) |-> f.index[keep[i]]],
      val |-> [i \in 1..Len(keep) |-> f.val[keep[i]]]]

\* df.index.min(), df.index.max(): NaT is skipped
index_min(f) == SetMin(Range(f.index) \ {NaT})
index_max(f) == SetMax(Range(f.index) \ {NaT})

\* a date range that leaves its end date out
date_range_open(lo, hi) == [i \in 1..(hi - lo) |-> lo + i - 1]

\* pd.date_range(start, end, freq="D")
date_range(lo, hi) == [i \in 1..(hi - lo + 1) |-> lo + i - 1]

\* df.reindex(all_days): the row labelled d, a row of missing cells if none
reindex(f, days) ==
  [cols |-> f.cols,
   index |-> days,
   val |-> [i \in 1..Len(days) |->
              IF \E r \in 1..Len(f.index) : f.index[r] = days[i]
              THEN f.val[CHOOSE r \in 1..Len(f.index) : f.index[r] = days[i]]
              ELSE [c \in Range(f.cols) |-> NA]]]

\* a fill that looks one row up only, as ffill(limit=1) does
ffill_limit1(f, i, c) ==
  IF f.val[i][c] # NA THEN f.val[i][c]
  ELSE IF i = 1 THEN NA
  ELSE f.val[i - 1][c]

\* .ffill(): down each column, a missing cell takes the cell above it
RECURSIVE ffill_cell(_, _, _)
ffill_cell(f, i, c) ==
  IF f.val[i][c] # NA THEN f.val[i][c]
  ELSE IF i = 1 THEN NA
  ELSE ffill_cell(f, i - 1, c)
ffill(f) ==
  [cols |-> f.cols,
   index |-> f.index,
   val |-> [i \in 1..Len(f.index) |-> [c \in Range(f.cols) |-> ffill_cell(f, i, c)]]]

\* pd.to_numeric(errors="coerce"): a number stays, anything else is missing
to_numeric(v) == IF v.k = "num" THEN v ELSE NA

(***************************************************************************)
(* (df * 100).round(0).astype("Int64") in IEEE-754 double precision.  A    *)
(* positive double is [sig, exp]: its 53 significand bits, most            *)
(* significant first, and the exponent of the leading bit; Zero is 0.0.    *)
(* The sign is carried apart, every operation here being symmetric.        *)
(***************************************************************************)
MantBits == 53
Zero == [sig |-> <<>>, exp |-> 0]

Rev(s) == [i \in 1..Len(s) |-> s[Len(s) + 1 - i]]

RECURSIVE IntBits(_)
IntBits(q) == IF q = 0 THEN <<>> ELSE IntBits(q \div 2) \o <<q % 2>>

RECURSIVE BitsVal(_)
BitsVal(b) == IF b = <<>> THEN 0 ELSE 2 * BitsVal(SubSeq(b, 1, Len(b) - 1)) + b[Len(b)]

\* b + 1 on a bit string; a carry out of the top bit lengthens it by one
RECURSIVE Inc(_)
Inc(b) ==
  IF b = <<>> THEN <<1>>
  ELSE IF b[Len(b)] = 0 THEN SubSeq(b, 1, Len(b) - 1) \o <<1>>
  ELSE Inc(SubSeq(b, 1, Len(b) - 1)) \o <<0>>

\* round-to-nearest-even of a significand whose dropped part is above
\* (up), at (tie) or below one half of its last place
RoundSig(sig, exp, up, tie) ==
  IF up \/ (tie /\ sig[Len(sig)] = 1)
  THEN LET s == Inc(sig)
       IN IF Len(s) > MantBits
          THEN [sig |-> SubSeq(s, 1, MantBits), exp |-> exp + 1]
          ELSE [sig |-> s, exp |-> exp]
  ELSE [sig |-> sig, exp |-> exp]

\* the double nearest to the decimal n/1000 (n >= 0), by long division
RECURSIVE DivBits(_, _, _, _)
DivBits(sig, r, pos, exp) ==
  IF Len(sig) = MantBits THEN RoundSig(sig, exp, 2 * r > 1000, 2 * r = 1000)
  ELSE LET b == IF 2 * r >= 1000 THEN 1 ELSE 0
           rr == 2 * r - 1000 * b
       IN IF sig = <<>> /\ b = 0 THEN DivBits(sig, rr, pos - 1, exp)
          ELSE DivBits(sig \o <<b>>, rr, pos - 1, IF sig = <<>> THEN pos ELSE exp)
double(n) ==
  IF n = 0 THEN Zero
  ELSE LET ib == IntBits(n \div 1000)
       IN DivBits(ib, n % 1000, -1, Len(ib) - 1)

\* bits (least significant first) times a small k
RECURSIVE MulSmall(_, _, _)
MulSmall(b, k, carry) ==
  IF b = <<>> THEN (IF carry = 0 THEN <<>>
                    ELSE <<carry % 2>> \o MulSmall(b, k, carry \div 2))
  ELSE LET t == Head(b) * k + carry
       IN <<t % 2>> \o MulSmall(Tail(b), k, t \div 2)

\* df * 100: the exact product, rounded to 53 bits
mul100(d) ==
  IF d = Zero THEN Zero
  ELSE LET p == Rev(MulSmall(Rev(d.sig), 100, 0))
           keep == SubSeq(p, 1, MantBits)
           rest == SubSeq(p, MantBits + 1, Len(p))
           sticky == \E i \in 2..Len(rest) : rest[i] = 1
       IN RoundSig(keep, d.exp + Len(p) - MantBits,
                   rest[1] = 1 /\ sticky, rest[1] = 1 /\ ~sticky)

\* rounding that sends a tie away from zero
rint_half_away(d) ==
  IF d = Zero \/ d.exp < -1 THEN 0
  ELSE IF d.exp = -1 THEN 1
  ELSE LET int == BitsVal(SubSeq(d.sig, 1, d.exp + 1))
       IN IF d.sig[d.exp + 2] = 1 THEN int + 1 ELSE int

\* .round(0): numpy rounds a double to the nearest integer, a tie to even
rint(d) ==
  IF d = Zero \/ d.exp < -1 THEN 0
  ELSE IF d.exp = -1
       THEN (IF \E i \in 2..MantBits : d.sig[i] = 1 THEN 1 ELSE 0)
  ELSE LET int == BitsVal(SubSeq(d.sig, 1, d.exp + 1))
           frac == SubSeq(d.sig, d.exp + 2, MantBits)
           sticky == \E i \in 2..Len(frac) : frac[i] = 1
       IN IF frac[1] = 1 /\ (sticky \/ int % 2 = 1) THEN int + 1 ELSE int

Abs(n) == IF n < 0 THEN -n ELSE n
Sgn(n) == IF n < 0 THEN -1 ELSE 1

\* one cell of (df * 100).round(0).astype("Int64"): pd.NA stays pd.NA
scale(v) ==
  IF v = NA THEN NA
  ELSE IntVal(Sgn(v.v) * rint(mul100(double(Abs(v.v)))))

\* the scaled value of every cell a sheet can hold, computed once
Scaled == [v \in AllCells |-> scale(to_numeric(v))]

\* df.apply(pd.to_numeric, errors="coerce"), then the scaling, cell by cell
to_basis_points(f) ==
  [cols |-> f.cols,
   index |-> f.index,
   val |-> [i \in 1..Len(f.index) |-> [c \in Range(f.cols) |-> Scaled[f.val[i][c]]]]]

\* df.iloc[:, :20] (src/app.py only; src/embi.py keeps every column)
ColCap == 20
iloc_cols(f) ==
  LET cols == SubSeq(f.cols, 1, Min(Len(f.cols), ColCap))
  IN [cols |-> cols,
      index |-> f.index,
      val |-> [i \in 1..Len(f.index) |-> [c \in Range(cols) |-> f.val[i][c]]]]

\* the statements between read_excel and the Dash app, in order
normalize(t) ==
  LET f1 == set_index(t, dropna_cols(t))
      f2 == drop_duplicated(f1)
      all_days == date_range(index_min(f2), index_max(f2))
      f3 == ffill(reindex(f2, all_days))
  IN iloc_cols(to_basis_points(f3))

(***************************************************************************)
(* State                                                                   *)
(***************************************************************************)
NoDf == [cols |-> <<>>, index |-> <<>>, val |-> <<>>]
NoFig == [status |-> "none"]
NoArgs == [sel |-> <<>>, start |-> 0, end |-> 0, called |-> FALSE]

\* The module body.  With no parseable date the date column itself is all
\* missing, dropna removes it, and set_index("Date") raises KeyError.
Build ==
  /\ pc = "loaded"
  /\ IF DateSurvives(raw)
     THEN /\ df' = normalize(raw)
          /\ pc' = "built"
     ELSE /\ df' = df
          /\ pc' = "failed"
  /\ UNCHANGED <<raw, fig, lastArgs, x, y>>

(***************************************************************************)
(* update_graph(selected_countries, start_date, end_date)                  *)
(***************************************************************************)
\* the rows of df.loc[start_date:end_date], both ends included
loc_rows(f, start, end) ==
  Ascending({i \in 1..Len(f.index) : start <= f.index[i] /\ f.index[i] <= end})

\* What the callback hands back: a figure with one trace and one last-value
\* label per selected country, or the exception that ended the call.
EmptyFigure == [status |-> "ok", traces |-> <<>>, labels |-> <<>>]
Raised(e) == [status |-> "error", exc |-> e]

figure_of(f, sel, start, end) ==
  IF sel = <<>> THEN EmptyFigure
  ELSE IF \E j \in 1..Len(sel) : sel[j] \notin Range(f.cols) THEN Raised("KeyError")
  ELSE LET rows == loc_rows(f, start, end)
           xs == [i \in 1..Len(rows) |-> f.index[rows[i]]]
           ys(c) == [i \in 1..Len(rows) |-> f.val[rows[i]][c]]
       IN IF rows = <<>> THEN Raised("IndexError")
          ELSE [status |-> "ok",
                traces |-> [j \in 1..Len(sel) |->
                              [name |-> sel[j], x |-> xs, y |-> ys(sel[j])]],
                labels |-> [j \in 1..Len(sel) |->
                              [x |-> xs[Len(xs)], y |-> ys(sel[j])[Len(xs)]]]]

\* a callback that keeps its slice in the global df
update_graph_in_place(sel, start, end) ==
  /\ pc = "built"
  /\ fig' = figure_of(df, sel, start, end)
  /\ lastArgs' = [sel |-> sel, start |-> start, end |-> end, called |-> TRUE]
  /\ df' = LET rows == loc_rows(df, start, end)
           IN [cols |-> df.cols,
               index |-> [i \in 1..Len(rows) |-> df.index[rows[i]]],
               val |-> [i \in 1..Len(rows) |-> df.val[rows[i]]]]
  /\ UNCHANGED <<raw, pc, x, y>>

\* one call of the callback; lastArgs records what it was called with
update_graph(sel, start, end) ==
  /\ pc = "built"
  /\ fig' = figure_of(df, sel, start, end)
  /\ lastArgs' = [sel |-> sel, start |-> start, end |-> end, called |-> TRUE]
  /\ UNCHANGED <<raw, pc, df, x, y>>

Selections == {<<>>, <<"X">>, <<"X", "Y">>, <<"Z">>}
QueryDates == 0..(QDay + 1)

(***************************************************************************)
(* The scaling step on its own                                             *)
(***************************************************************************)
Scale ==
  /\ pc = "coerced"
  /\ y' = scale(x)
  /\ pc' = "scaled"
  /\ UNCHANGED <<raw, df, fig, lastArgs, x>>

(***************************************************************************)
(* Specifications                                                          *)
(***************************************************************************)
Init ==
  /\ raw \in RawTables(QRows, 1..QDay, QRowCells)
  /\ pc = "loaded"
  /\ df = NoDf
  /\ fig = NoFig
  /\ lastArgs = NoArgs
  /\ x = NA
  /\ y = NA

Next ==
  \/ Build
  \/ \E sel \in Selections, start \in QueryDates, end \in QueryDates :
       update_graph(sel, start, end)

Spec == Init /\ [][Next]_vars

InitNorm ==
  /\ raw \in RawTables(MaxRows, {BadDate} \cup (1..MaxDay), RowCells)
  /\ pc = "loaded"
  /\ df = NoDf
  /\ fig = NoFig
  /\ lastArgs = NoArgs
  /\ x = NA
  /\ y = NA

NextNorm == Build

SpecNorm == InitNorm /\ [][NextNorm]_vars

InitScale ==
  /\ raw = <<>>
  /\ pc = "coerced"
  /\ df = NoDf
  /\ fig = NoFig
  /\ lastArgs = NoArgs
  /\ x \in {NA} \cup {Num(n) : n \in (-MaxMilli)..MaxMilli}
  /\ y = NA

NextScale == Scale

SpecScale == InitScale /\ [][NextScale]_vars

(***************************************************************************)
(* Vocabulary of the properties, stated on the raw sheet                   *)
(***************************************************************************)
ParsedDate(i) == IF raw[i].date >= 1 THEN raw[i].date ELSE NaT

\* the rows left after invalid-date exclusion and deduplication
Retained(i) ==
  /\ ParsedDate(i) # NaT
  /\ \A j \in (i + 1)..Len(raw) : ParsedDate(j) # ParsedDate(i)

ValidDates == {ParsedDate(i) : i \in 1..Len(raw)} \ {NaT}

\* the most recent raw observation of c at or before d: the cell of c in
\* the retained row of the latest date up to d that fills it; NA when no
\* retained row up to d fills it
LastObs(c, d) ==
  LET obs == {i \in 1..Len(raw) : ParsedDate(i) <= d /\ raw[i].cells[c] # NA /\ Retained(i)}
  IN IF obs = {} THEN NA
     ELSE raw[CHOOSE i \in obs : \A j \in obs : ParsedDate(j) <= ParsedDate(i)].cells[c]

(***************************************************************************)
(* C1: forward fill.  As claimed: every canonical value is the scaled      *)
(* integer of the most recent raw observation of its column at or before   *)
(* its date, and is missing exactly when there is no such observation.     *)
(***************************************************************************)
C1_AsClaimed ==
  pc = "built" =>
    \A c \in Range(df.cols) : \A i \in 1..Len(df.index) :
      LET o == LastObs(c, df.index[i])
      IN /\ (df.val[i][c] = NA) <=> (o = NA)
         /\ df.val[i][c] = Scaled[o]

\* C1 as it holds: every canonical value is the scaling of the coerced most
\* recent non-missing raw cell of its own column at or before its date; it
\* is missing exactly when there is no such cell or that cell is no number.
C1_ForwardFill ==
  pc = "built" =>
    \A c \in Range(df.cols) : \A i \in 1..Len(df.index) :
      LET o == LastObs(c, df.index[i])
      IN /\ df.val[i][c] = Scaled[o]
         /\ (df.val[i][c] = NA) <=> (o = NA \/ o = Text)

\* a built table with a day no row reports whose value is carried forward,
\* and a column still missing on a day before its first observation
C1_Witness ==
  /\ pc = "built"
  /\ \E c \in Range(df.cols) : \E i \in 1..Len(df.index) :
       /\ df.index[i] \notin ValidDates
       /\ df.val[i][c] # NA
  /\ \E c \in Range(df.cols) : \E i \in 1..Len(df.index) :
       /\ df.val[i][c] = NA
       /\ df.val[Len(df.index)][c] # NA

(***************************************************************************)
(* C2: of the rows sharing a parsed date only the last one counts: at that *)
(* date a cell the last row fills gives the canonical value, and a cell it *)
(* leaves missing is filled from the day before (missing on the first      *)
(* day), never from an earlier row of the same date.                       *)
(***************************************************************************)
C2_KeepLast ==
  pc = "built" =>
    \A i \in 1..Len(raw) : \A j \in (i + 1)..Len(raw) :
      (Retained(j) /\ ParsedDate(i) = ParsedDate(j)) =>
        \A c \in Range(df.cols) :
          LET k == ParsedDate(j) - df.index[1] + 1
          IN /\ df.index[k] = ParsedDate(j)
             /\ df.val[k][c] =
                  IF raw[j].cells[c] # NA THEN Scaled[raw[j].cells[c]]
                  ELSE IF k = 1 THEN NA
                  ELSE df.val[k - 1][c]

\* three rows of one date, a number in the last one only, and it is stored
C2_Witness ==
  /\ pc = "built"
  /\ \E i \in 1..Len(raw) : \E j \in (i + 1)..Len(raw) : \E l \in (j + 1)..Len(raw) :
     \E c \in Range(df.cols) :
       /\ ParsedDate(l) # NaT
       /\ ParsedDate(i) = ParsedDate(l)
       /\ ParsedDate(j) = ParsedDate(l)
       /\ raw[i].cells[c] = Text
       /\ raw[j].cells[c] = NA
       /\ raw[l].cells[c].k = "num"
       /\ df.val[ParsedDate(l) - df.index[1] + 1][c] = Scaled[raw[l].cells[c]]

(***************************************************************************)
(* C3: a sheet with a parseable date is built, and its canonical index     *)
(* runs from the least to the greatest valid date in steps of one day,     *)
(* with no invalid date in it.                                             *)
(***************************************************************************)
C3_GapFreeIndex ==
  (pc # "loaded" /\ ValidDates # {}) =>
    /\ pc = "built"
    /\ Len(df.index) >= 1
    /\ df.index[1] = SetMin(ValidDates)
    /\ df.index[Len(df.index)] = SetMax(ValidDates)
    /\ \A i \in 1..Len(df.index) : df.index[i] # NaT
    /\ \A i \in 1..(Len(df.index) - 1) : df.index[i + 1] = df.index[i] + 1
    /\ \A i \in 1..Len(df.index) : \A j \in (i + 1)..Len(df.index) :
         df.index[i] < df.index[j]

\* built from rows out of date order, one of them with an invalid date,
\* with a day between them that no row reports
C3_Witness ==
  /\ pc = "built"
  /\ \E i \in 1..Len(raw) : \E j \in (i + 1)..Len(raw) :
       /\ ParsedDate(j) # NaT
       /\ ParsedDate(i) > ParsedDate(j)
  /\ \E i \in 1..Len(raw) : ParsedDate(i) = NaT
  /\ \E i \in 1..Len(df.index) : df.index[i] \notin ValidDates

(***************************************************************************)
(* C4: a column with no non-missing cell in the rows whose date parsed is  *)
(* not among the canonical columns.                                        *)
(***************************************************************************)
C4_AsClaimed ==
  pc = "built" =>
    \A c \in Range(ColNames) :
      (\A i \in 1..Len(raw) : ParsedDate(i) # NaT => raw[i].cells[c] = NA)
        => c \notin Range(df.cols)

(***************************************************************************)
(* C7: the build fails whenever the sheet has no parseable date or no      *)
(* series column survives pruning; a built table has a series column.      *)
(***************************************************************************)
C7_AsClaimed ==
  pc # "loaded" =>
    /\ (ValidDates = {} \/ \A c \in Range(ColNames) : \A i \in 1..Len(raw) :
                               raw[i].cells[c] = NA)
         => pc = "failed"
    /\ pc = "built" => df.cols # <<>>

(***************************************************************************)
(* Vocabulary of the query properties                                      *)
(***************************************************************************)
minDate == df.index[1]
maxDate == df.index[Len(df.index)]
Clamp(d) == IF d < minDate THEN minDate ELSE IF d > maxDate THEN maxDate ELSE d
Max(a, b) == IF a >= b THEN a ELSE b

\* a query of known columns has been answered
Answered ==
  /\ pc = "built"
  /\ lastArgs.called
  /\ lastArgs.sel # <<>>
  /\ Range(lastArgs.sel) \subseteq Range(df.cols)

\* the label of a column none of whose values in range is present
Absent == [k |-> "absent"]

(***************************************************************************)
(* C5: a query whose start date is after its end date once both are        *)
(* clamped to [minDate, maxDate] returns, without an error, an empty       *)
(* series for every requested column.                                      *)
(***************************************************************************)
C5_AsClaimed ==
  (Answered /\ Clamp(lastArgs.start) > Clamp(lastArgs.end)) =>
    /\ fig.status = "ok"
    /\ Len(fig.traces) = Len(lastArgs.sel)
    /\ \A j \in 1..Len(fig.traces) : fig.traces[j].x = <<>> /\ fig.traces[j].y = <<>>

(***************************************************************************)
(* C6: the label of a selected column is the date and value of the last    *)
(* entry in range whose value is present, and is absent when every value   *)
(* of the column in range is missing.                                      *)
(***************************************************************************)
C6_AsClaimed ==
  (pc = "built" /\ lastArgs.called /\ fig.status = "ok") =>
    \A j \in 1..Len(fig.traces) :
      LET t == fig.traces[j]
          present == {i \in 1..Len(t.y) : t.y[i] # NA}
      IN fig.labels[j] =
           IF present = {} THEN Absent
           ELSE [x |-> t.x[SetMax(present)], y |-> t.y[SetMax(present)]]

(***************************************************************************)
(* C9: a query with start date <= end date returns, without an error, for  *)
(* every selected column the canonical dates D with                        *)
(* max(start, minDate) <= D <= min(end, maxDate), in index order, and the  *)
(* canonical values at those dates.                                        *)
(***************************************************************************)
C9_AsClaimed ==
  (Answered /\ lastArgs.start <= lastArgs.end) =>
    LET lo == Max(lastArgs.start, minDate)
        hi == Min(lastArgs.end, maxDate)
        run == Ascending({i \in 1..Len(df.index) : lo <= df.index[i] /\ df.index[i] <= hi})
    IN /\ fig.status = "ok"
       /\ Len(fig.traces) = Len(lastArgs.sel)
       /\ \A j \in 1..Len(fig.traces) :
            /\ fig.traces[j].name = lastArgs.sel[j]
            /\ fig.traces[j].x = [i \in 1..Len(run) |-> df.index[run[i]]]
            /\ fig.traces[j].y = [i \in 1..Len(run) |-> df.val[run[i]][lastArgs.sel[j]]]

(***************************************************************************)
(* C10: once the table is built no step changes it, whatever the queries   *)
(* (empty selections, unknown columns, failing queries), and a query       *)
(* repeated with the same arguments returns the same result.               *)
(***************************************************************************)
C10_ReadOnly ==
  [][pc = "built" =>
       /\ df' = df
       /\ (lastArgs.called /\ lastArgs' = lastArgs) => fig' = fig]_vars

\* a query of both columns over part of the table has been answered, and
\* the table is still the one the build made
C10_Witness ==
  /\ pc = "built"
  /\ lastArgs.called
  /\ fig.status = "ok"
  /\ Len(fig.traces) = 2
  /\ Len(fig.traces[1].x) < Len(df.index)
  /\ df = normalize(raw)

(***************************************************************************)
(* C8: scaling.  As claimed: the decimal times 100 is rounded to the       *)
(* nearest integer, a product ending in exactly .5 away from zero, and a   *)
(* missing value stays missing.                                            *)
(***************************************************************************)
HalfAway(n) == Sgn(n) * ((Abs(n) + 5) \div 10)

C8_AsClaimed ==
  pc = "scaled" =>
    /\ x = NA => y = NA
    /\ x # NA => y = IntVal(HalfAway(x.v))

\* C8 as it holds: a missing value stays missing; a number n/1000 becomes an
\* integer nearest to n/10; when n/1000 is a multiple of 1/8, so that the
\* double product is exactly the half, the tie goes to the even integer
\* (0.125 gives 12, 0.375 gives 38); 4.255 gives 426 and 4.254 gives 425,
\* while 1.015 gives 101 and 0.545 gives 55, their double products lying
\* just below and just above the half.
C8_Scaling ==
  pc = "scaled" =>
    /\ x = NA => y = NA
    /\ x # NA =>
         /\ y # NA
         /\ Abs(10 * y.v - x.v) <= 5
         /\ (x.v % 125 = 0 /\ x.v % 10 = 5) => y.v % 2 = 0
         /\ x.v = 4255 => y.v = 426
         /\ x.v = 4254 => y.v = 425
         /\ x.v = 1015 => y.v = 101
         /\ x.v = 545 => y.v = 55

\* 0.125 has been scaled: its product 12.5 is a tie and went to 12
C8_Witness == pc = "scaled" /\ x = Num(125) /\ y = IntVal(12)

====
